---- MODULE Spec2Model ----
(***************************************************************************)
(* The multi-agent pipeline of orchestrator.py, agents.py and logger.py:   *)
(* AgentOrchestrator.execute_workflow runs Research, Analysis, Writer and  *)
(* Review in order, each stage one Completion Client call wrapped by       *)
(* track_agent_performance, and appends one WorkflowResult to              *)
(* workflow_history; get_workflow_statistics and get_agent_performance     *)
(* read that history.                                                      *)
(*                                                                         *)
(* Texts (topic, completions, agent names, metric keys) are sequences of   *)
(* one-character strings, so that slicing, splitting and lowercasing act   *)
(* on characters.  time.time() is the wall clock, read in whole seconds:   *)
(* a reading may be any later value, or an earlier one when the system     *)
(* clock is set back.  The two readings of the wrapper in logger.py only   *)
(* feed the end span's elapsed time, which is not recorded, so they are    *)
(* left out: a change of the clock there shows at the next reading.        *)
(* Telemetry is the sequence of spans the logger opens; a span is recorded *)
(* by its kind, its agent name and, for an error span, the error text.     *)
(* Plain logging lines are not recorded.  Divisions are kept exact, as     *)
(* fractions; the rounding of floats is not modelled.                      *)
(*                                                                         *)
(* calls, replies and returned record what the Completion Client received  *)
(* and answered and what execute_workflow returned; pre records what a     *)
(* call found at its entry.  They are read by the properties only.         *)
(***************************************************************************)
EXTENDS Integers, Sequences, FiniteSets, TLC

\* ---------------------------------------------------------------- bounds
MaxRuns == 2
MaxClock == 1
MaxClockChanges == 1
MaxQueries == 1

\* ------------------------------------------------------ program constants
MsPerSecond == 1000
SummaryLen == 200
ConfidenceScorePct == 85
QualityScorePct == 92
NumStages == 4

\* ------------------------------------------------------------------ texts
Topics == { <<"T">> }
Responses == { <<"R", "1">>, <<"a", " ", "b">> }
Errors == { "timeout", "auth" }

Upper == <<"A","B","C","D","E","F","G","H","I","J","K","L","M",
           "N","O","P","Q","R","S","T","U","V","W","X","Y","Z">>
LowerTab == <<"a","b","c","d","e","f","g","h","i","j","k","l","m",
              "n","o","p","q","r","s","t","u","v","w","x","y","z">>

LowerChar(c) ==
    IF \E i \in 1..Len(Upper) : Upper[i] = c
    THEN LowerTab[CHOOSE i \in 1..Len(Upper) : Upper[i] = c]
    ELSE c

\* str.lower()
Lower(s) == [i \in 1..Len(s) |-> LowerChar(s[i])]

\* s[:n]
Truncate(s, n) == SubSeq(s, 1, IF Len(s) < n THEN Len(s) ELSE n)

\* len(s.split()): the number of maximal runs of non-blank characters
WordCount(s) ==
    Cardinality({ i \in 1..Len(s) : s[i] # " " /\ (i = 1 \/ s[i-1] = " ") })

\* dict.get(key, default)
Get(r, k, d) == IF k \in DOMAIN r THEN r[k] ELSE d

TimeSuffix == <<"_","t","i","m","e","_","m","s">>
ResearchKey == <<"r","e","s","e","a","r","c","h">> \o TimeSuffix
AnalysisKey == <<"a","n","a","l","y","s","i","s">> \o TimeSuffix
WritingKey == <<"w","r","i","t","i","n","g">> \o TimeSuffix
ReviewKey == <<"r","e","v","i","e","w">> \o TimeSuffix
TotalKey == <<"t","o","t","a","l">> \o TimeSuffix

\* The names get_agent_performance is asked about
AgentNames ==
    { <<"r","e","s","e","a","r","c","h">>,
      <<"A","n","a","l","y","s","i","s">>,
      <<"w","r","i","t","i","n","g">>,
      <<"R","E","V","I","E","W">>,
      <<"T","o","t","a","l">>,
      <<"W","r","i","t","e","r">>,
      <<"R","e","s","e","a","r","c","h","A","g","e","n","t">>,
      <<"A","n","a","l","y","s","i","s","A","g","e","n","t">>,
      <<"W","r","i","t","e","r","A","g","e","n","t">>,
      <<"R","e","v","i","e","w","A","g","e","n","t">> }

\* ----------------------------------------------------------------- stages
AgentName(k) ==
    CASE k = 1 -> "ResearchAgent"
      [] k = 2 -> "AnalysisAgent"
      [] k = 3 -> "WriterAgent"
      [] k = 4 -> "ReviewAgent"

VARIABLES
    pc,                \* "idle", or "llm" while a Completion Client call is open
    stage,             \* the stage the running workflow is at, 0 when idle
    topic,             \* execute_workflow's argument
    workflow_start,    \* orchestrator.py:24
    workflow_id,       \* orchestrator.py:25
    stage_start,       \* research_start, analysis_start, writing_start, review_start
    stage_input,       \* the input_data of the stage being executed
    results,           \* research_result .. review_result obtained so far
    times,             \* research_time .. review_time obtained so far
    research_history,
    analysis_history,
    written_content,
    review_history,
    workflow_history,
    telemetry,         \* the spans opened by AgentLogger, in order
    calls,             \* the prompts the Completion Client received, in order
    replies,           \* how the Completion Client answered them, in order
    returned,          \* the values execute_workflow returned, in order
    ret,               \* how the last call of the orchestrator's API ended
    now,               \* the last reading of time.time()
    clock_changes,     \* how often two successive readings differed
    clock_set_back,    \* whether a reading was ever below the one before it
    runs,              \* execute_workflow calls made
    queries,           \* statistics calls made
    pre                \* what the running call found when it was entered

vars == << pc, stage, topic, workflow_start, workflow_id, stage_start,
           stage_input, results, times, research_history, analysis_history,
           written_content, review_history, workflow_history, telemetry,
           calls, ret, now, clock_changes, clock_set_back, runs,
           queries, replies, returned, pre >>

histories == << research_history, analysis_history, written_content,
                review_history, workflow_history >>

NoText == << >>

\* time.time(): what a reading can be when the last one was `t` and the clock
\* has changed `ch` times: the same value or, later or earlier, any other.
\* Each is << the reading, the changes so far, whether it went back >>
ClockReadings(t, ch) ==
    { <<t, ch, FALSE>> }
        \cup (IF ch < MaxClockChanges
              THEN { <<u, ch + 1, u < t>> : u \in (0..MaxClock) \ {t} }
              ELSE {})

\* (time.time() - start) * 1000
ElapsedMs(start, end) == (end - start) * MsPerSecond

Span(kind, agent, text) == [kind |-> kind, agent |-> agent, text |-> text]

\* settings.enable_metrics, at its default
enable_metrics == TRUE

\* AgentLogger.log_metrics
log_metrics(log, agent) ==
    IF enable_metrics THEN Append(log, Span("metrics", agent, "")) ELSE log

\* llm.invoke(prompt) as the Completion Client sees it: the stage's template
\* with input_data substituted, and the spans `log` emitted before the call
Invoke(k, input_data, log) ==
    [agent |-> AgentName(k), input |-> input_data, spans |-> Len(log)]

\* The record a stage builds from the completion (agents.py, the four execute)
StageResult(k, input_data, content) ==
    CASE k = 1 -> [topic |-> input_data,
                   findings |-> content,
                   research_type |-> "comprehensive"]
      [] k = 2 -> [input_summary |-> Truncate(input_data, SummaryLen),
                   insights |-> content,
                   confidence_score |-> ConfidenceScorePct]
      [] k = 3 -> [report_type |-> "professional",
                   content |-> content,
                   word_count |-> WordCount(content),
                   status |-> "completed"]
      [] k = 4 -> [status |-> "reviewed",
                   quality_assessment |-> content,
                   quality_score |-> QualityScorePct,
                   approved |-> TRUE]

\* ForwardedField, were the Writer given the Analysis stage's echo of its input
ForwardedFieldEcho(k) ==
    CASE k = 1 -> "findings"
      [] k = 2 -> "input_summary"
      [] k = 3 -> "content"

\* The field of stage k's result that execute_workflow hands to stage k+1
ForwardedField(k) ==
    CASE k = 1 -> "findings"
      [] k = 2 -> "insights"
      [] k = 3 -> "content"

NextInput(k, result) == Get(result, ForwardedField(k), NoText)

\* Performance, were the Writer's timing stored under the Writer's name
PerformanceWriterKey(ts, total) ==
    (ResearchKey :> ts[1]) @@ (AnalysisKey :> ts[2])
        @@ ((<<"w","r","i","t","e","r">> \o TimeSuffix) :> ts[3])
        @@ (ReviewKey :> ts[4]) @@ (TotalKey :> total)

\* workflow_result["performance"]
Performance(ts, total) ==
    (ResearchKey :> ts[1]) @@ (AnalysisKey :> ts[2]) @@ (WritingKey :> ts[3])
        @@ (ReviewKey :> ts[4]) @@ (TotalKey :> total)

WorkflowResult(id, tp, rs, ts, total) ==
    [workflow_id |-> id,
     topic |-> tp,
     research_output |-> rs[1],
     analysis_output |-> rs[2],
     writing_output |-> rs[3],
     review_output |-> rs[4],
     performance |-> Performance(ts, total)]

\* The wrapper of track_agent_performance up to the call of the wrapped
\* execute, and execute up to llm.invoke
BeginStage(log, k) == Append(log, Span("start", AgentName(k), "execute"))

\* execute after llm.invoke returned, and the wrapper after execute returned
EndStage(log, k) == Append(log, Span("end", AgentName(k), "dict"))

\* FailStage, were the except branch to re-raise without logging
FailStageSilent(log, k, e) == log

\* the wrapper's except branch
FailStage(log, k, e) == Append(log, Span("error", AgentName(k), e))

\* AppendIf, were the three lists one list shared by the agents
AppendIfShared(h, cond, r) == Append(h, r)

\* self.<history>.append(result) of the stage that is executing
AppendIf(h, cond, r) == IF cond THEN Append(h, r) ELSE h

\* ------------------------------------------------------------- statistics
RECURSIVE Sum(_)
Sum(q) == IF q = << >> THEN 0 ELSE q[1] + Sum(Tail(q))

RECURSIVE Min(_)
Min(q) ==
    IF Len(q) = 1 THEN q[1]
    ELSE LET m == Min(Tail(q)) IN IF q[1] < m THEN q[1] ELSE m

RECURSIVE Max(_)
Max(q) ==
    IF Len(q) = 1 THEN q[1]
    ELSE LET m == Max(Tail(q)) IN IF q[1] > m THEN q[1] ELSE m

Abs(x) == IF x < 0 THEN -x ELSE x

RECURSIVE GCD(_, _)
GCD(a, b) == IF b = 0 THEN a ELSE GCD(b, a % b)

\* a / b of Python for b > 0, kept exact: the fraction in lowest terms
TrueDiv(a, b) ==
    LET g == GCD(Abs(a), b) IN [num |-> a \div g, den |-> b \div g]

\* get_workflow_statistics, were it to average the Research timings
get_workflow_statistics_research(history) ==
    IF history = << >>
    THEN [message |-> "No workflows completed yet"]
    ELSE LET total_workflows == Len(history)
             avg_total_time ==
                 TrueDiv(Sum([i \in 1..Len(history) |->
                                  history[i].performance[ResearchKey]]),
                         total_workflows)
         IN  [total_workflows |-> total_workflows,
              average_workflow_time_ms |-> avg_total_time,
              workflows |-> [i \in 1..Len(history) |-> history[i].workflow_id]]

\* AgentOrchestrator.get_workflow_statistics
get_workflow_statistics(history) ==
    IF history = << >>
    THEN [message |-> "No workflows completed yet"]
    ELSE LET total_workflows == Len(history)
             avg_total_time ==
                 TrueDiv(Sum([i \in 1..Len(history) |->
                                  history[i].performance[TotalKey]]),
                         total_workflows)
         IN  [total_workflows |-> total_workflows,
              average_workflow_time_ms |-> avg_total_time,
              workflows |-> [i \in 1..Len(history) |-> history[i].workflow_id]]

\* the loop of get_agent_performance: the recorded values of agent_key
RECURSIVE CollectTimes(_, _)
CollectTimes(history, agent_key) ==
    IF history = << >> THEN << >>
    ELSE (IF agent_key \in DOMAIN history[1].performance
          THEN << history[1].performance[agent_key] >>
          ELSE << >>) \o CollectTimes(Tail(history), agent_key)

\* f"{agent_name.lower()}_time_ms"
AgentKey(agent_name) == Lower(agent_name) \o TimeSuffix

\* get_agent_performance, were it to take the first and last recorded values
\* for the least and the greatest
get_agent_performance_ends(history, agent_name) ==
    LET times_ == CollectTimes(history, AgentKey(agent_name))
    IN  IF times_ = << >>
        THEN [message |-> <<"No data for ", agent_name>>]
        ELSE [agent |-> agent_name,
              executions |-> Len(times_),
              average_time_ms |-> TrueDiv(Sum(times_), Len(times_)),
              min_time_ms |-> times_[1],
              max_time_ms |-> times_[Len(times_)]]

\* AgentOrchestrator.get_agent_performance
get_agent_performance(history, agent_name) ==
    LET times_ == CollectTimes(history, AgentKey(agent_name))
    IN  IF times_ = << >>
        THEN [message |-> <<"No data for ", agent_name>>]
        ELSE [agent |-> agent_name,
              executions |-> Len(times_),
              average_time_ms |-> TrueDiv(Sum(times_), Len(times_)),
              min_time_ms |-> Min(times_),
              max_time_ms |-> Max(times_)]

Idle ==
    /\ pc' = "idle"
    /\ stage' = 0
    /\ topic' = NoText
    /\ workflow_start' = 0
    /\ workflow_id' = << >>
    /\ stage_start' = 0
    /\ stage_input' = NoText
    /\ results' = << >>
    /\ times' = << >>

Init ==
    /\ pc = "idle"
    /\ stage = 0
    /\ topic = NoText
    /\ workflow_start = 0
    /\ workflow_id = << >>
    /\ stage_start = 0
    /\ stage_input = NoText
    /\ results = << >>
    /\ times = << >>
    /\ research_history = << >>
    /\ analysis_history = << >>
    /\ written_content = << >>
    /\ review_history = << >>
    /\ workflow_history = << >>
    /\ telemetry = << >>
    /\ calls = << >>
    /\ ret = [op |-> "none", kind |-> "none", arg |-> NoText]
    /\ now \in 0..MaxClock
    /\ clock_changes = 0
    /\ clock_set_back = FALSE
    /\ runs = 0
    /\ queries = 0
    /\ replies = << >>
    /\ returned = << >>
    /\ pre = [workflow_history |-> << >>, telemetry |-> 0, calls |-> 0,
              returned |-> 0,
              stage_lens |-> <<0, 0, 0, 0>>]


\* execute_workflow(t), from its entry to the Research stage's llm.invoke
ExecuteWorkflow(t) ==
    /\ pc = "idle"
    /\ runs < MaxRuns
    /\ \E r1 \in ClockReadings(now, clock_changes) :
       \E r2 \in ClockReadings(r1[1], r1[2]) :
       \E r3 \in ClockReadings(r2[1], r2[2]) :
          /\ workflow_start' = r1[1]
          /\ workflow_id' = <<"workflow_", r2[1]>>
          /\ stage_start' = r3[1]
          /\ now' = r3[1]
          /\ clock_changes' = r3[2]
          /\ clock_set_back' = (clock_set_back \/ r1[3] \/ r2[3] \/ r3[3])
    /\ runs' = runs + 1
    /\ topic' = t
    /\ stage' = 1
    /\ stage_input' = t
    /\ results' = << >>
    /\ times' = << >>
    /\ telemetry' = BeginStage(telemetry, 1)
    /\ calls' = Append(calls, Invoke(1, t, telemetry'))
    /\ pc' = "llm"
    /\ ret' = [op |-> "execute_workflow", kind |-> "running", arg |-> t]
    /\ pre' = [workflow_history |-> workflow_history,
               telemetry |-> Len(telemetry),
               calls |-> Len(calls),
               returned |-> Len(returned),
               stage_lens |-> << Len(research_history), Len(analysis_history),
                                 Len(written_content), Len(review_history) >>]
    /\ UNCHANGED << histories, queries, replies, returned >>

\* StageCompleted, were the next stage timed from the start of the one before
StageCompletedSharedStart(content) ==
    /\ pc = "llm"
    /\ stage < NumStages
    /\ LET result == StageResult(stage, stage_input, content)
           input == NextInput(stage, result)
       IN  /\ research_history' = AppendIf(research_history, stage = 1, result)
           /\ analysis_history' = AppendIf(analysis_history, stage = 2, result)
           /\ written_content' = AppendIf(written_content, stage = 3, result)
           /\ UNCHANGED << review_history, workflow_history >>
           /\ results' = Append(results, result)
           /\ \E r1 \in ClockReadings(now, clock_changes) :
              \E r2 \in ClockReadings(r1[1], r1[2]) :
                 /\ times' = Append(times, ElapsedMs(stage_start, r1[1]))
                 /\ stage_start' = stage_start
                 /\ now' = r2[1]
                 /\ clock_changes' = r2[2]
                 /\ clock_set_back' = (clock_set_back \/ r1[3] \/ r2[3])
           /\ telemetry' = BeginStage(
                               log_metrics(EndStage(telemetry, stage),
                                           AgentName(stage)),
                               stage + 1)
           /\ stage_input' = input
           /\ replies' = Append(replies, [kind |-> "content", value |-> content])
           /\ calls' = Append(calls, Invoke(stage + 1, input, telemetry'))
    /\ stage' = stage + 1
    /\ UNCHANGED << pc, topic, workflow_start, workflow_id, ret, runs,
                    queries, returned, pre >>

\* Stage k < 4: llm.invoke returns `content`; the stage records its result,
\* the orchestrator times it and goes on to the next stage's llm.invoke
StageCompleted(content) ==
    /\ pc = "llm"
    /\ stage < NumStages
    /\ LET result == StageResult(stage, stage_input, content)
           input == NextInput(stage, result)
       IN  /\ research_history' = AppendIf(research_history, stage = 1, result)
           /\ analysis_history' = AppendIf(analysis_history, stage = 2, result)
           /\ written_content' = AppendIf(written_content, stage = 3, result)
           /\ UNCHANGED << review_history, workflow_history >>
           /\ results' = Append(results, result)
           /\ \E r1 \in ClockReadings(now, clock_changes) :
              \E r2 \in ClockReadings(r1[1], r1[2]) :
                 /\ times' = Append(times, ElapsedMs(stage_start, r1[1]))
                 /\ stage_start' = r2[1]
                 /\ now' = r2[1]
                 /\ clock_changes' = r2[2]
                 /\ clock_set_back' = (clock_set_back \/ r1[3] \/ r2[3])
           /\ telemetry' = BeginStage(
                               log_metrics(EndStage(telemetry, stage),
                                           AgentName(stage)),
                               stage + 1)
           /\ stage_input' = input
           /\ replies' = Append(replies, [kind |-> "content", value |-> content])
           /\ calls' = Append(calls, Invoke(stage + 1, input, telemetry'))
    /\ stage' = stage + 1
    /\ UNCHANGED << pc, topic, workflow_start, workflow_id, ret, runs,
                    queries, returned, pre >>

\* WorkflowCompleted, were the new WorkflowResult put at the head of the list
WorkflowCompletedAtHead(content) ==
    /\ pc = "llm"
    /\ stage = NumStages
    /\ LET result == StageResult(stage, stage_input, content)
       IN  \E r1 \in ClockReadings(now, clock_changes) :
           \E r2 \in ClockReadings(r1[1], r1[2]) :
           LET ts == Append(times, ElapsedMs(stage_start, r1[1]))
               total == ElapsedMs(workflow_start, r2[1])
               workflow_result ==
                   WorkflowResult(workflow_id, topic, Append(results, result),
                                  ts, total)
           IN  /\ review_history' = Append(review_history, result)
               /\ workflow_history' = << workflow_result >> \o workflow_history
               /\ returned' = Append(returned, workflow_result)
               /\ ret' = [op |-> "execute_workflow", kind |-> "return",
                          arg |-> topic, value |-> workflow_result]
               /\ now' = r2[1]
               /\ clock_changes' = r2[2]
               /\ clock_set_back' = (clock_set_back \/ r1[3] \/ r2[3])
    /\ replies' = Append(replies, [kind |-> "content", value |-> content])
    /\ telemetry' = log_metrics(
                        log_metrics(EndStage(telemetry, stage), AgentName(stage)),
                        "Orchestrator")
    /\ Idle
    /\ UNCHANGED << research_history, analysis_history, written_content,
                    calls, runs, queries, pre >>

\* Stage 4: llm.invoke returns `content`; the Review stage records its result
\* and execute_workflow compiles, appends and returns the WorkflowResult
WorkflowCompleted(content) ==
    /\ pc = "llm"
    /\ stage = NumStages
    /\ LET result == StageResult(stage, stage_input, content)
       IN  \E r1 \in ClockReadings(now, clock_changes) :
           \E r2 \in ClockReadings(r1[1], r1[2]) :
           LET ts == Append(times, ElapsedMs(stage_start, r1[1]))
               total == ElapsedMs(workflow_start, r2[1])
               workflow_result ==
                   WorkflowResult(workflow_id, topic, Append(results, result),
                                  ts, total)
           IN  /\ review_history' = Append(review_history, result)
               /\ workflow_history' = Append(workflow_history, workflow_result)
               /\ returned' = Append(returned, workflow_result)
               /\ ret' = [op |-> "execute_workflow", kind |-> "return",
                          arg |-> topic, value |-> workflow_result]
               /\ now' = r2[1]
               /\ clock_changes' = r2[2]
               /\ clock_set_back' = (clock_set_back \/ r1[3] \/ r2[3])
    /\ replies' = Append(replies, [kind |-> "content", value |-> content])
    /\ telemetry' = log_metrics(
                        log_metrics(EndStage(telemetry, stage), AgentName(stage)),
                        "Orchestrator")
    /\ Idle
    /\ UNCHANGED << research_history, analysis_history, written_content,
                    calls, runs, queries, pre >>

\* StageFailed, were execute_workflow to keep what the run had so far
StageFailedPartial(e) ==
    /\ pc = "llm"
    /\ telemetry' = FailStage(telemetry, stage, e)
    /\ replies' = Append(replies, [kind |-> "raise", value |-> e])
    /\ ret' = [op |-> "execute_workflow", kind |-> "raise", arg |-> topic,
               value |-> e]
    /\ workflow_history' =
           Append(workflow_history,
                  [workflow_id |-> workflow_id, topic |-> topic,
                   partial |-> results])
    /\ Idle
    /\ UNCHANGED << research_history, analysis_history, written_content,
                    review_history, calls, now, clock_changes, clock_set_back,
                    runs, queries, returned, pre >>

\* StageFailed, were the failed call sent again
StageFailedRetry(e) ==
    /\ pc = "llm"
    /\ telemetry' = BeginStage(FailStage(telemetry, stage, e), stage)
    /\ replies' = Append(replies, [kind |-> "raise", value |-> e])
    /\ calls' = Append(calls, Invoke(stage, stage_input, telemetry'))
    /\ UNCHANGED << pc, stage, topic, workflow_start, workflow_id, stage_start,
                    stage_input, results, times, histories, ret, now,
                    clock_changes, clock_set_back, runs, queries, returned,
                    pre >>

\* llm.invoke raises `e`: the wrapper logs the error and re-raises, and
\* nothing in execute_workflow catches it
StageFailed(e) ==
    /\ pc = "llm"
    /\ telemetry' = FailStage(telemetry, stage, e)
    /\ replies' = Append(replies, [kind |-> "raise", value |-> e])
    /\ ret' = [op |-> "execute_workflow", kind |-> "raise", arg |-> topic,
               value |-> e]
    /\ Idle
    /\ UNCHANGED << histories, calls, now, clock_changes, clock_set_back,
                    runs, queries, returned, pre >>

GetWorkflowStatistics ==
    /\ pc = "idle"
    /\ queries < MaxQueries
    /\ queries' = queries + 1
    /\ ret' = [op |-> "get_workflow_statistics", kind |-> "return",
               arg |-> NoText,
               value |-> get_workflow_statistics(workflow_history)]
    /\ UNCHANGED << pc, stage, topic, workflow_start, workflow_id, stage_start,
                    stage_input, results, times, histories, telemetry, calls,
                    now, clock_changes, clock_set_back, runs,
                    replies, returned, pre >>

GetAgentPerformance(agent_name) ==
    /\ pc = "idle"
    /\ queries < MaxQueries
    /\ queries' = queries + 1
    /\ ret' = [op |-> "get_agent_performance", kind |-> "return",
               arg |-> agent_name,
               value |-> get_agent_performance(workflow_history, agent_name)]
    /\ UNCHANGED << pc, stage, topic, workflow_start, workflow_id, stage_start,
                    stage_input, results, times, histories, telemetry, calls,
                    now, clock_changes, clock_set_back, runs,
                    replies, returned, pre >>

Next ==
    \/ \E t \in Topics : ExecuteWorkflow(t)
    \/ \E c \in Responses : StageCompleted(c)
    \/ \E c \in Responses : WorkflowCompleted(c)
    \/ \E e \in Errors : StageFailed(e)
    \/ GetWorkflowStatistics
    \/ \E n \in AgentNames : GetAgentPerformance(n)

Spec == Init /\ [][Next]_vars

\* ------------------------------------------------------------------ claims
\* What the Completion Client and the telemetry saw of the execute_workflow
\* call that is running or was made last
RunCalls == SubSeq(calls, pre.calls + 1, Len(calls))
RunReplies == SubSeq(replies, pre.calls + 1, Len(replies))
LastRaised == ret.op = "execute_workflow" /\ ret.kind = "raise"
LastReturned == ret.op = "execute_workflow" /\ ret.kind = "return"
Last(q) == q[Len(q)]
StageLens == << Len(research_history), Len(analysis_history),
                Len(written_content), Len(review_history) >>

\* C1: fail-fast.  When the Completion Client call of stage k of a run has
\* failed, that call is the last the run makes (no stage after k is invoked),
\* execute_workflow is over, it has returned no WorkflowResult, what it raised
\* is the error the client raised, and workflow_history is what it was when
\* the call was entered.
C1_FailFast ==
    \A j \in (pre.calls + 1)..Len(replies) :
        replies[j].kind = "raise" =>
            /\ j = Len(calls)
            /\ j - pre.calls \in 1..NumStages
            /\ calls[j].agent = AgentName(j - pre.calls)
            /\ pc = "idle"
            /\ Len(returned) = pre.returned
            /\ workflow_history = pre.workflow_history
            /\ ret.op = "execute_workflow" =>
                   ret.kind = "raise" /\ ret.value = replies[j].value

\* C1 witness: a second run fails at the Review stage after a first run
\* succeeded
C1_Witness ==
    /\ LastRaised
    /\ Len(RunCalls) = NumStages
    /\ Len(workflow_history) = 1

\* C2: stage order.  The client calls of a run are those of Research,
\* Analysis, Writer, Review in that order, each at most once; a stage is
\* called only when every earlier stage of the run has returned a completion;
\* a run that returned made exactly four calls.
C2_StageOrder ==
    /\ Len(RunCalls) <= NumStages
    /\ runs > 0 => Len(RunCalls) >= 1
    /\ \A i \in 1..Len(RunCalls) : RunCalls[i].agent = AgentName(i)
    /\ Len(replies) = (IF pc = "llm" THEN Len(calls) - 1 ELSE Len(calls))
    /\ \A i \in 1..(Len(RunCalls) - 1) : RunReplies[i].kind = "content"
    /\ LastReturned =>
           /\ Len(RunCalls) = NumStages
           /\ \A i \in 1..NumStages : RunReplies[i].kind = "content"

\* C2 witness: the second of two runs has returned
C2_Witness == LastReturned /\ runs = 2 /\ Len(calls) = 2 * NumStages

\* C3: stage chaining.  Research is invoked with the topic, Analysis with the
\* findings of the Research result, Writer with the insights of the Analysis
\* result, Review with the content of the Writer result, and the returned
\* WorkflowResult holds the four results as the stages produced them.
C3_Chaining ==
    /\ pc = "llm" =>
           /\ RunCalls[1].input = topic
           /\ Len(results) = Len(RunCalls) - 1
           /\ Len(RunCalls) >= 2 => RunCalls[2].input = results[1].findings
           /\ Len(RunCalls) >= 3 => RunCalls[3].input = results[2].insights
           /\ Len(RunCalls) >= 4 => RunCalls[4].input = results[3].content
           /\ \A i \in 2..Len(RunCalls) : RunCalls[i].input = RunReplies[i-1].value
    /\ LastReturned =>
           LET w == ret.value
           IN  /\ w.topic = ret.arg
               /\ RunCalls[1].input = ret.arg
               /\ RunCalls[2].input = w.research_output.findings
               /\ RunCalls[3].input = w.analysis_output.insights
               /\ RunCalls[4].input = w.writing_output.content
               /\ w.research_output = Last(research_history)
               /\ w.analysis_output = Last(analysis_history)
               /\ w.writing_output = Last(written_content)
               /\ w.review_output = Last(review_history)
               /\ w.research_output.topic = ret.arg
               /\ w.research_output.findings = RunReplies[1].value
               /\ w.analysis_output.insights = RunReplies[2].value
               /\ w.writing_output.content = RunReplies[3].value
               /\ w.review_output.quality_assessment = RunReplies[4].value

\* C3 witness: a run has returned whose Research, Analysis and Writer
\* completions differ from their neighbours
C3_Witness ==
    /\ LastReturned
    /\ ret.value.research_output.findings # ret.value.analysis_output.insights
    /\ ret.value.analysis_output.insights # ret.value.writing_output.content


\* C4: workflow_history is append-only and insertion-ordered.  It is at all
\* times the list of the values the successful execute_workflow calls
\* returned, in call order; a step either leaves it alone or is the return of
\* a run and appends that run's returned value.
C4_AppendOnly ==
    /\ [](workflow_history = returned)
    /\ [][ \/ workflow_history' = workflow_history
           \/ /\ pc = "llm"
              /\ ret'.op = "execute_workflow"
              /\ ret'.kind = "return"
              /\ workflow_history' = Append(workflow_history, ret'.value) ]_vars

\* C4 witness: two runs have returned different WorkflowResults
C4_Witness ==
    /\ Len(workflow_history) = 2
    /\ workflow_history[1] # workflow_history[2]

\* The total timings the successful runs returned
ReturnedTotals == [i \in 1..Len(returned) |-> returned[i].performance[TotalKey]]

\* C5: get_workflow_statistics returns the marker when no run has succeeded;
\* after N >= 1 successful runs it returns N, the arithmetic mean of the N
\* total timings and the N ids in order; it changes no history.
C5_WorkflowStatistics ==
    /\ [](ret.op = "get_workflow_statistics" =>
             IF returned = << >>
             THEN ret.value = [message |-> "No workflows completed yet"]
             ELSE /\ ret.value.total_workflows = Len(returned)
                  /\ ret.value.average_workflow_time_ms.den > 0
                  /\ ret.value.average_workflow_time_ms.num * Len(returned)
                         = Sum(ReturnedTotals)
                             * ret.value.average_workflow_time_ms.den
                  /\ ret.value.workflows
                         = [i \in 1..Len(returned) |-> returned[i].workflow_id])
    /\ [][ret'.op = "get_workflow_statistics" => UNCHANGED histories]_vars

\* C5 witness: statistics over two runs whose total timings differ
C5_Witness ==
    /\ ret.op = "get_workflow_statistics"
    /\ Len(returned) = 2
    /\ ReturnedTotals[1] # ReturnedTotals[2]
    /\ ReturnedTotals[1] # returned[1].performance[ResearchKey]

\* The runs whose performance record has the key of the name asked about,
\* and the values recorded under it
AskedKey == Lower(ret.arg) \o TimeSuffix
AskedRuns == { i \in 1..Len(returned) : AskedKey \in DOMAIN returned[i].performance }
AskedValues == { returned[i].performance[AskedKey] : i \in AskedRuns }
AskedSum ==
    Sum([i \in 1..Len(returned) |->
            IF i \in AskedRuns THEN returned[i].performance[AskedKey] ELSE 0])

\* C6: get_agent_performance(name) looks up lowercase(name) + "_time_ms"; it
\* returns the marker when no run recorded that key, and otherwise the
\* number of runs that did with the mean, least and greatest of their
\* values; it does not change workflow_history.
C6_AgentPerformance ==
    /\ [](ret.op = "get_agent_performance" =>
             IF AskedRuns = {}
             THEN ret.value = [message |-> <<"No data for ", ret.arg>>]
             ELSE /\ ret.value.agent = ret.arg
                  /\ ret.value.executions = Cardinality(AskedRuns)
                  /\ ret.value.average_time_ms.den > 0
                  /\ ret.value.average_time_ms.num * Cardinality(AskedRuns)
                         = AskedSum * ret.value.average_time_ms.den
                  /\ ret.value.min_time_ms \in AskedValues
                  /\ ret.value.max_time_ms \in AskedValues
                  /\ \A v \in AskedValues :
                         ret.value.min_time_ms <= v /\ v <= ret.value.max_time_ms)
    /\ [][ret'.op = "get_agent_performance" =>
             workflow_history' = workflow_history]_vars

\* C6 witness: a name with a capital letter is asked about after two runs
\* whose values for it go down from the first run to the second
C6_Witness ==
    /\ ret.op = "get_agent_performance"
    /\ ret.arg # Lower(ret.arg)
    /\ Len(returned) = 2
    /\ AskedRuns = {1, 2}
    /\ returned[1].performance[AskedKey] > returned[2].performance[AskedKey]

\* The names whose timings a WorkflowResult records
RecordedNames ==
    { <<"r","e","s","e","a","r","c","h">>, <<"a","n","a","l","y","s","i","s">>,
      <<"w","r","i","t","i","n","g">>, <<"r","e","v","i","e","w">>,
      <<"t","o","t","a","l">> }

\* The name of the Writer stage and the names of the four agents
StageNames ==
    { <<"W","r","i","t","e","r">>,
      <<"R","e","s","e","a","r","c","h","A","g","e","n","t">>,
      <<"A","n","a","l","y","s","i","s","A","g","e","n","t">>,
      <<"W","r","i","t","e","r","A","g","e","n","t">>,
      <<"R","e","v","i","e","w","A","g","e","n","t">> }

\* C10: after N >= 1 successful runs get_agent_performance returns
\* executions = N for the names that are research, analysis, writing, review
\* or total in lowercase, and the marker for every other name, the Writer
\* stage's name and the four agent names among them.
C10_KeyMismatch ==
    (ret.op = "get_agent_performance" /\ Len(returned) >= 1) =>
        /\ IF Lower(ret.arg) \in RecordedNames
           THEN /\ "executions" \in DOMAIN ret.value
                /\ ret.value.executions = Len(returned)
           ELSE ret.value = [message |-> <<"No data for ", ret.arg>>]
        /\ ret.arg \in StageNames =>
               ret.value = [message |-> <<"No data for ", ret.arg>>]

\* C10 witness: after two runs the Writer stage's name has no data
C10_Witness ==
    /\ ret.op = "get_agent_performance"
    /\ ret.arg = <<"W","r","i","t","e","r">>
    /\ Len(returned) = 2
    /\ "message" \in DOMAIN ret.value

\* C7: every WorkflowResult records the four stage timings and the total
\* timing, each of them non-negative.
C7_NonNegativeTimings ==
    \A i \in 1..Len(workflow_history) :
        /\ DOMAIN workflow_history[i].performance
               = {ResearchKey, AnalysisKey, WritingKey, ReviewKey, TotalKey}
        /\ \A k \in DOMAIN workflow_history[i].performance :
               workflow_history[i].performance[k] >= 0

\* The spans of the given kinds among telemetry[from..to]
SpansOf(kinds, from, to) == { m \in from..to : telemetry[m].kind \in kinds }

\* Where the spans of call j end: before the next call's start span
SpansEnd(j) ==
    IF j < Len(calls) THEN calls[j+1].spans - 1 ELSE Len(telemetry)

\* C8: telemetry order.  The start span of a stage is emitted before its
\* client call; once the call is over exactly one closing span of that stage
\* follows, an end span if the call returned and an error span with the
\* client's error if it raised; a stage's metrics span comes right after its
\* end span; the workflow's metrics span is emitted once per returned run,
\* after the Review stage's; a run that raised ended on the error span of the
\* error it raised.
C8_Telemetry ==
    /\ \A j \in 1..Len(calls) :
           LET s == calls[j].spans
               a == calls[j].agent
           IN  /\ s \in 1..Len(telemetry)
               /\ telemetry[s] = Span("start", a, "execute")
               /\ IF j > Len(replies)
                  THEN s = Len(telemetry)
                  ELSE /\ s < Len(telemetry)
                       /\ telemetry[s+1] =
                              (IF replies[j].kind = "content"
                               THEN Span("end", a, "dict")
                               ELSE Span("error", a, replies[j].value))
                       /\ SpansOf({"end", "error"}, s + 1, SpansEnd(j)) = {s + 1}
    /\ Cardinality(SpansOf({"start"}, 1, Len(telemetry))) = Len(calls)
    /\ \A m \in SpansOf({"metrics"}, 1, Len(telemetry)) :
           /\ m >= 3
           /\ IF telemetry[m].agent = "Orchestrator"
              THEN /\ telemetry[m-1] = Span("metrics", "ReviewAgent", "")
                   /\ telemetry[m-2] = Span("end", "ReviewAgent", "dict")
              ELSE telemetry[m-1] = Span("end", telemetry[m].agent, "dict")
    /\ Cardinality({ m \in SpansOf({"metrics"}, 1, Len(telemetry)) :
                        telemetry[m].agent = "Orchestrator" }) = Len(returned)
    /\ LastRaised =>
           /\ Last(telemetry) = Span("error", Last(calls).agent, ret.value)
           /\ Last(replies) = [kind |-> "raise", value |-> ret.value]

\* C8 witness: a run fails at the Writer stage after an earlier run returned
C8_Witness ==
    /\ LastRaised
    /\ Len(returned) = 1
    /\ Last(calls).agent = "WriterAgent"

\* The completions stage k has received
Completed(k) ==
    { j \in 1..Len(replies) :
        calls[j].agent = AgentName(k) /\ replies[j].kind = "content" }

StageHistories ==
    << research_history, analysis_history, written_content, review_history >>

\* C9: the stages' own histories.  Each has one entry per completion the
\* stage received, the StageResult it returned, and grows only by appending;
\* their lengths go down from Research to Review, whose history is as long as
\* workflow_history; a run that failed at stage k left the histories of the
\* stages before k one entry longer and the others, and workflow_history, as
\* they were.
C9_StageHistories ==
    /\ [](/\ \A k \in 1..NumStages :
                 Len(StageHistories[k]) = Cardinality(Completed(k))
          /\ Len(research_history) >= Len(analysis_history)
          /\ Len(analysis_history) >= Len(written_content)
          /\ Len(written_content) >= Len(review_history)
          /\ Len(review_history) = Len(workflow_history)
          /\ pc = "llm" =>
                 \A k \in 1..Len(results) : Last(StageHistories[k]) = results[k]
          /\ LastRaised =>
                 /\ \A k \in 1..NumStages :
                        Len(StageHistories[k]) =
                            pre.stage_lens[k]
                                + (IF k < Len(RunCalls) THEN 1 ELSE 0)
                 /\ workflow_history = pre.workflow_history)
    /\ [][\A k \in 1..NumStages :
             \/ StageHistories[k]' = StageHistories[k]
             \/ /\ Len(StageHistories[k]') = Len(StageHistories[k]) + 1
                /\ SubSeq(StageHistories[k]', 1, Len(StageHistories[k]))
                       = StageHistories[k]]_vars

\* C9 witness: after a run that returned, a run failed at the Writer stage
C9_Witness ==
    /\ LastRaised
    /\ Len(RunCalls) = 3
    /\ StageLens = <<2, 2, 1, 1>>
    /\ Len(workflow_history) = 1

\* The four stage timings of a WorkflowResult, added up
StageTimeSum(w) ==
    w.performance[ResearchKey] + w.performance[AnalysisKey]
        + w.performance[WritingKey] + w.performance[ReviewKey]

TotalCoversStages(w) == w.performance[TotalKey] >= StageTimeSum(w)

\* C11: when no clock reading has been below the one before it, the total
\* timing of every WorkflowResult in workflow_history is at least the sum of
\* its four stage timings; and a WorkflowResult appended while that is so
\* satisfies it whatever the clock does afterwards.
C11_TotalCoversStages ==
    /\ [](~clock_set_back =>
             \A i \in 1..Len(workflow_history) :
                 TotalCoversStages(workflow_history[i]))
    /\ [][(workflow_history' # workflow_history /\ ~clock_set_back') =>
             TotalCoversStages(Last(workflow_history'))]_vars

\* C11 witness: the clock never went back, and a WorkflowResult was recorded
\* in which a stage took time
C11_Witness ==
    /\ ~clock_set_back
    /\ \E i \in 1..Len(workflow_history) :
           /\ StageTimeSum(workflow_history[i]) > 0
           /\ workflow_history[i].performance[TotalKey] > 0

====
